---------------------------- MODULE Spec2Model ----------------------------
(***************************************************************************)
(* A model of aiaio's storage layer, src/src/aiaio/db.py (class            *)
(* ChatDatabase over SQLite).                                              *)
(*                                                                         *)
(* The store is a file holding up to four tables.  Every public method     *)
(* opens its own connection (`with sqlite3.connect(...) as conn`): the     *)
(* first INSERT/UPDATE/DELETE of a connection implicitly begins a          *)
(* transaction, the with-block commits it on normal exit and rolls it back *)
(* when an exception leaves the block.  Other connections read the         *)
(* committed contents only.  executescript() runs its statements in        *)
(* autocommit mode and stops at the first statement that fails.            *)
(***************************************************************************)
EXTENDS Integers, Sequences, FiniteSets, TLC

VARIABLES
    db_exists,      \* os.path.exists(self.db_path)
    tables,         \* names of the tables present in the store
    summary_col,    \* conversations has the column "summary"
    conversations,  \* committed rows of table conversations
    messages,       \* committed rows of table messages
    attachments,    \* committed rows of table attachments
    settings,       \* committed rows of table settings
    seq,            \* sqlite_sequence of settings (AUTOINCREMENT)
    constructed,    \* a ChatDatabase object exists (its __init__ returned)
    txn,            \* the open write transaction: its uncommitted rows
    pc,             \* position of the call that holds the write lock inside its method
    local,          \* the local variables of that call
    last,           \* the most recent call event: a call that began, returned or raised
    unclosed        \* connections that finished calls opened and nothing closed yet

vars == <<db_exists, tables, summary_col, conversations, messages, attachments,
          settings, seq, constructed, txn, pc, local, last, unclosed>>

schema == <<db_exists, tables, summary_col>>
chat == <<conversations, messages, attachments>>

-----------------------------------------------------------------------------
(* Bounds of the model *)

MaxProfiles == 2        \* settings rows the model lets exist
MaxMessages == 2        \* message rows the model lets exist
MaxAttachments == 2     \* attachment rows the model lets exist
MaxUnclosed == 1        \* unclosed connections the model counts: this many stands for this many or more

Times == {0, 1}                 \* the values time.time() and strftime('now') give

-----------------------------------------------------------------------------
(* Values *)

NULL == "NULL"
NoTxn == [open |-> FALSE]
NoLocal == [op |-> "none"]

\* Optional[int]: None is <<>>, the integer k is <<k>>
None == <<>>
Some(k) == <<k>>

\* dict.get(key, default)
Get(d, key, dflt) == IF key \in DOMAIN d THEN d[key] ELSE dflt

-----------------------------------------------------------------------------
(* The schema script _DB *)

TableNames == {"conversations", "messages", "attachments", "settings"}

\* the CREATE TABLE statements of _DB, in script order
Script == <<"conversations", "messages", "attachments", "settings">>

DefaultTemperature == "1.0"
DefaultMaxTokens == 4096
DefaultTopP == "0.95"
DefaultHost == "http://localhost:8000/v1"
DefaultModelName == "meta-llama/Llama-3.2-1B-Instruct"
DefaultApiKey == ""

\* a schema script whose INSERT leaves out the "default" column
DefaultProfile_unflagged(t) ==
    [id |-> 1, name |-> "default", default |-> FALSE,
     temperature |-> DefaultTemperature, max_tokens |-> DefaultMaxTokens,
     top_p |-> DefaultTopP, host |-> DefaultHost,
     model_name |-> DefaultModelName, api_key |-> DefaultApiKey,
     updated_at |-> t]

\* INSERT INTO settings (...) VALUES ('default', true, ...) at the end of _DB
DefaultProfile(t) ==
    [id |-> 1, name |-> "default", default |-> TRUE,
     temperature |-> DefaultTemperature, max_tokens |-> DefaultMaxTokens,
     top_p |-> DefaultTopP, host |-> DefaultHost,
     model_name |-> DefaultModelName, api_key |-> DefaultApiKey,
     updated_at |-> t]

\* index of the first CREATE TABLE of the script that fails because its table
\* already exists; Len(Script) + 1 when none fails
FirstClash(tabs) ==
    IF \E i \in 1..Len(Script) : Script[i] \in tabs
    THEN CHOOSE i \in 1..Len(Script) :
            /\ Script[i] \in tabs
            /\ \A j \in 1..(i-1) : Script[j] \notin tabs
    ELSE Len(Script) + 1

\* the tables conn.executescript(_DB) creates before it stops
ScriptCreates(tabs) == {Script[j] : j \in 1..(FirstClash(tabs) - 1)}

\* executescript(_DB) ran to its end, the INSERT included
ScriptCompletes(tabs) == FirstClash(tabs) = Len(Script) + 1

-----------------------------------------------------------------------------
(* Call events *)

Called(op, arg) == [kind |-> "call", op |-> op, arg |-> arg]
Returned(op, arg, res) == [kind |-> "return", op |-> op, arg |-> arg, result |-> res]
Raised(op, arg, err) == [kind |-> "raise", op |-> op, arg |-> arg, error |-> err]

\* a call can take the write lock: no connection holds it
CanWrite == txn = NoTxn

\* the end of `with sqlite3.connect(self.db_path) as conn`: the block commits
\* or rolls back and does not close conn, and no method calls conn.close();
\* the connection stays open until the garbage collector finalizes it
Leave == unclosed' = IF unclosed < MaxUnclosed THEN unclosed + 1 ELSE unclosed

\* the garbage collector runs: it finalizes, and so closes, every connection
\* that finished calls left behind
collect ==
    /\ unclosed > 0
    /\ unclosed' = 0
    /\ UNCHANGED <<schema, chat, settings, seq, constructed, txn, pc, local, last>>

-----------------------------------------------------------------------------
(* ChatDatabase.__init__ / _init_db *)

\* executescript(_DB) on a store holding the tables tabs
RunScript(how, t) ==
    /\ db_exists' = TRUE
    /\ tables' = tables \cup ScriptCreates(tables)
    /\ summary_col' = IF "conversations" \in ScriptCreates(tables) THEN TRUE ELSE summary_col
    /\ IF ScriptCompletes(tables)
       THEN /\ settings' = {DefaultProfile(t)}
            /\ seq' = 1
            /\ constructed' = TRUE
            /\ last' = Returned("init_db", how, "ok")
       ELSE /\ UNCHANGED <<settings, seq, constructed>>
            /\ last' = Raised("init_db", how, "OperationalError: table already exists")
    /\ UNCHANGED <<chat, txn, pc, local>>

\* an _init_db that runs the schema script on every construction
NeedsScript_always(tabs) == TRUE

\* if len(tables) < 4: the store lacks one of the four tables
NeedsScript(tabs) == Cardinality(tabs \cap TableNames) < 4

init_db ==
    /\ Leave
    /\ CanWrite
    /\ \E t \in Times :
        IF ~db_exists
        THEN RunScript("create", t)
        ELSE IF NeedsScript(tables)
             THEN RunScript("recreate", t)
             ELSE /\ summary_col' = TRUE     \* ALTER TABLE ... ADD COLUMN summary
                  /\ constructed' = TRUE
                  /\ last' = Returned("init_db", IF summary_col THEN "keep" ELSE "alter", "ok")
                  /\ UNCHANGED <<db_exists, tables, chat, settings, seq, txn, pc, local>>

-----------------------------------------------------------------------------
(* Transactions *)

\* the rows a transaction starts from: the committed ones
Begin ==
    [open |-> TRUE, conversations |-> conversations, messages |-> messages,
     attachments |-> attachments, settings |-> settings]

\* an exception handler that commits what the call had written so far
Abort_commits ==
    /\ conversations' = txn.conversations
    /\ messages' = txn.messages
    /\ attachments' = txn.attachments
    /\ settings' = txn.settings
    /\ txn' = NoTxn

\* an exception leaves the with-block: the connection rolls back
Abort ==
    /\ txn' = NoTxn
    /\ UNCHANGED <<conversations, messages, attachments, settings>>

\* normal exit of the with-block: the connection commits
Commit ==
    /\ conversations' = txn.conversations
    /\ messages' = txn.messages
    /\ attachments' = txn.attachments
    /\ settings' = txn.settings
    /\ txn' = NoTxn

-----------------------------------------------------------------------------
(* Settings *)

\* the settings dictionaries callers supply
ProfileDicts ==
    { [name |-> "fast", default |-> TRUE, temperature |-> "0.2", max_tokens |-> 256, top_p |-> "0.5",
       host |-> "http://h:1/v1", model_name |-> "m", api_key |-> "k"],
      [temperature |-> "0.2"] }

\* the same dictionaries carrying an "id" entry: None or an integer
WithId(d, i) == [k \in DOMAIN d \cup {"id"} |-> IF k = "id" THEN i ELSE d[k]]

\* an INSERT that binds none of the supplied values
NewProfile_defaults(i, d, t) ==
    [id |-> i, name |-> "New Config", default |-> FALSE,
     temperature |-> DefaultTemperature, max_tokens |-> DefaultMaxTokens,
     top_p |-> DefaultTopP, host |-> DefaultHost,
     model_name |-> DefaultModelName, api_key |-> DefaultApiKey,
     updated_at |-> t]

\* the row an INSERT INTO settings (name, temperature, ...) creates;
\* "default" takes the column default false
NewProfile(i, d, t) ==
    [id |-> i, name |-> Get(d, "name", "New Config"), default |-> FALSE,
     temperature |-> Get(d, "temperature", DefaultTemperature),
     max_tokens |-> Get(d, "max_tokens", DefaultMaxTokens),
     top_p |-> Get(d, "top_p", DefaultTopP),
     host |-> Get(d, "host", DefaultHost),
     model_name |-> Get(d, "model_name", DefaultModelName),
     api_key |-> Get(d, "api_key", DefaultApiKey),
     updated_at |-> t]

\* an UPDATE that also writes the "default" entry of the dictionary
UpdatedProfile_flagged(r, d, t) ==
    [r EXCEPT !.name = Get(d, "name", "Default Config"),
              !.default = Get(d, "default", r.default),
              !.updated_at = t]

\* UPDATE settings SET name = ?, ... , updated_at = ? WHERE id = ?
UpdatedProfile(r, d, t) ==
    [r EXCEPT !.name = Get(d, "name", "Default Config"),
              !.temperature = Get(d, "temperature", DefaultTemperature),
              !.max_tokens = Get(d, "max_tokens", DefaultMaxTokens),
              !.top_p = Get(d, "top_p", DefaultTopP),
              !.host = Get(d, "host", DefaultHost),
              !.model_name = Get(d, "model_name", DefaultModelName),
              !.api_key = Get(d, "api_key", DefaultApiKey),
              !.updated_at = t]

add_settings ==
    /\ Leave
    /\ CanWrite /\ constructed
    /\ Cardinality(settings) < MaxProfiles
    /\ \E d \in ProfileDicts, t \in Times :
        /\ settings' = settings \cup {NewProfile(seq + 1, d, t)}
        /\ seq' = seq + 1
        /\ last' = Returned("add_settings", d, seq + 1)
    /\ UNCHANGED <<schema, chat, constructed, txn, pc, local>>

save_settings ==
    /\ Leave
    /\ CanWrite /\ constructed
    /\ \E d \in ProfileDicts, t \in Times :
        \/ \E i \in {"absent", "none"} :
              LET s == IF i = "absent" THEN d ELSE WithId(d, None) IN
              /\ Cardinality(settings) < MaxProfiles
              /\ settings' = settings \cup {NewProfile(seq + 1, s, t)}
              /\ seq' = seq + 1
              /\ last' = Returned("save_settings", s, TRUE)
        \/ \E k \in 1..(MaxProfiles + 1) :
              LET s == WithId(d, Some(k))
                  hit == {r \in settings : r.id = s["id"][1]} IN
              /\ settings' = (settings \ hit) \cup {UpdatedProfile(r, s, t) : r \in hit}
              /\ seq' = seq
              /\ last' = Returned("save_settings", s, Cardinality(hit) > 0)
    /\ UNCHANGED <<schema, chat, constructed, txn, pc, local>>

\* a set_default_settings that forgets to remove the current default
ClearDefault_kept(rows) == rows

\* UPDATE settings SET "default" = false WHERE "default" = true
ClearDefault(rows) == {[r EXCEPT !.default = FALSE] : r \in rows}

\* the UPDATE without its WHERE clause
MarkDefault_all(rows, id) == {[r EXCEPT !.default = TRUE] : r \in rows}

\* UPDATE settings SET "default" = true WHERE id = ?
MarkDefault(rows, id) == {IF r.id = id THEN [r EXCEPT !.default = TRUE] ELSE r : r \in rows}

\* a rowcount taken from the first UPDATE, the one that clears
MarkCount_cleared(rows, id) == Cardinality(rows)

\* cursor.rowcount of that UPDATE
MarkCount(rows, id) == Cardinality({r \in rows : r.id = id})

\* a connection in autocommit mode (isolation_level=None): every statement
\* is committed as it runs
SettingsWritten_autocommit(t, rows) ==
    /\ txn' = [t EXCEPT !.settings = rows]
    /\ settings' = rows

\* where a statement of set_default_settings leaves its rows: in the
\* transaction the connection implicitly began, invisible to other connections
SettingsWritten(t, rows) ==
    /\ txn' = [t EXCEPT !.settings = rows]
    /\ settings' = settings

\* first statement of set_default_settings: remove the current default
set_default_clear ==
    /\ UNCHANGED unclosed
    /\ CanWrite /\ constructed
    /\ \E id \in 1..(MaxProfiles + 1) :
        /\ SettingsWritten(Begin, ClearDefault(settings))
        /\ local' = [op |-> "set_default_settings", settings_id |-> id]
        /\ last' = Called("set_default_settings", id)
    /\ pc' = "set_default_set"
    /\ UNCHANGED <<schema, chat, seq, constructed>>

\* second statement: set the new default
set_default_set ==
    /\ UNCHANGED unclosed
    /\ pc = "set_default_set"
    /\ SettingsWritten(txn, MarkDefault(txn.settings, local.settings_id))
    /\ local' = [op |-> "set_default_settings", settings_id |-> local.settings_id,
                 rowcount |-> MarkCount(txn.settings, local.settings_id)]
    /\ pc' = "set_default_return"
    /\ UNCHANGED <<schema, chat, seq, constructed, last>>

\* return cursor.rowcount > 0: leaving the with-block commits
set_default_return ==
    /\ Leave
    /\ pc = "set_default_return"
    /\ Commit
    /\ last' = Returned("set_default_settings", local.settings_id, local.rowcount > 0)
    /\ pc' = "idle"
    /\ local' = NoLocal
    /\ UNCHANGED <<schema, seq, constructed>>

EmptyDict == [k \in {} |-> NULL]

\* what a SELECT on table settings reads: every method reads through a
\* connection of its own, which sees the committed rows
VisibleSettings == settings

\* the results SELECT * FROM settings WHERE "default" = true; fetchone() can
\* give: dict(settings) if settings else {}
FetchDefault(rows) ==
    IF {r \in rows : r.default} = {} THEN {EmptyDict} ELSE {r \in rows : r.default}

get_settings ==
    /\ Leave
    /\ constructed
    /\ \E r \in FetchDefault(VisibleSettings) : last' = Returned("get_settings", "", r)
    /\ UNCHANGED <<schema, chat, settings, seq, constructed, txn, pc, local>>

\* SELECT * FROM settings ORDER BY name; the model keeps the rows as a set
get_all_settings ==
    /\ Leave
    /\ constructed
    /\ last' = Returned("get_all_settings", "", VisibleSettings)
    /\ UNCHANGED <<schema, chat, settings, seq, constructed, txn, pc, local>>

\* SELECT * FROM settings WHERE id = ?; fetchone():
\* dict(settings) if settings else None
FetchById(rows, id) ==
    IF {r \in rows : r.id = id} = {} THEN None
    ELSE Some(CHOOSE r \in rows : r.id = id)

get_settings_by_id ==
    /\ Leave
    /\ constructed
    /\ \E id \in 1..(MaxProfiles + 1) :
          last' = Returned("get_settings_by_id", id, FetchById(VisibleSettings, id))
    /\ UNCHANGED <<schema, chat, settings, seq, constructed, txn, pc, local>>

\* a write attempted while another connection holds the write lock times out
locked ==
    /\ Leave
    /\ constructed
    /\ ~CanWrite
    /\ last' = Raised("write", "", "OperationalError: database is locked")
    /\ UNCHANGED <<schema, chat, settings, seq, constructed, txn, pc, local>>

-----------------------------------------------------------------------------
(* Conversations, messages and attachments *)

\* the conversation identifiers callers hold: the uuid4 values of
\* create_conversation, used or not yet used
ConvIds == {1, 2}
MessageIds == 1 .. MaxMessages
AttachmentIds == 1 .. MaxAttachments

\* role TEXT CHECK(role IN ('user', 'assistant', 'system'))
RoleEnum == {"user", "assistant", "system"}
\* content_type TEXT CHECK(content_type IN ('text', 'image', 'audio', 'video', 'file'))
ContentTypeEnum == {"text", "image", "audio", "video", "file"}

\* a CHECK constraint fails when its expression is false; on NULL the
\* expression is NULL, which does not fail it
Check(v, enum) == v = NULL \/ v \in enum

\* the arguments callers supply
RoleArgs == {"user", "robot"}
ContentTypeArgs == {"text"}
ContentArgs == {"hello"}

\* attachment descriptors: a complete one, and one that lacks "size"
AttA == [name |-> "a.png", path |-> "/tmp/a.png", type |-> "image/png", size |-> 1024]
AttB == [name |-> "b.png", path |-> "/tmp/b.png", type |-> "image/png"]
AttKeys == {"name", "path", "type", "size"}

\* the attachments argument: None or [] (both <<>>) or a list of descriptors
AttLists == {<<>>, <<AttA>>, <<AttA, AttA>>, <<AttA, AttB>>}

\* uuid.uuid4(): an identifier no stored row carries
FreshIn(ids, used) == CHOOSE i \in ids \ used : \A j \in ids \ used : i <= j

UsedConvIds == {c.conversation_id : c \in conversations} \cup {m.conversation_id : m \in messages}

\* INSERT INTO conversations (conversation_id) VALUES (?): created_at and
\* last_updated take the column default, the instant of the insert
create_conversation ==
    /\ Leave
    /\ CanWrite /\ constructed
    /\ ConvIds \ UsedConvIds # {}
    /\ \E t \in Times :
        LET id == FreshIn(ConvIds, UsedConvIds) IN
        /\ conversations' = conversations \cup
              {[conversation_id |-> id, created_at |-> t, last_updated |-> t, summary |-> NULL]}
        /\ last' = Returned("create_conversation", "", id)
    /\ UNCHANGED <<schema, messages, attachments, settings, seq, constructed, txn, pc, local>>

\* a connection in autocommit mode: every statement is committed as it runs
ChatWritten_autocommit(t, c, m, a) ==
    /\ txn' = [t EXCEPT !.conversations = c, !.messages = m, !.attachments = a]
    /\ conversations' = c /\ messages' = m /\ attachments' = a

\* where a statement of add_message leaves its rows: in the transaction the
\* connection implicitly began, invisible to other connections
ChatWritten(t, c, m, a) ==
    /\ txn' = [t EXCEPT !.conversations = c, !.messages = m, !.attachments = a]
    /\ UNCHANGED <<conversations, messages, attachments>>

AddMessageArgs(c, role, ctype, content, atts) ==
    [conversation_id |-> c, role |-> role, content_type |-> ctype,
     content |-> content, attachments |-> atts]

\* INSERT INTO messages (...) VALUES (?, ?, ?, ?, ?, ?): the first statement,
\* for callers that draw role, content_type and attachments from the given sets
AddMessageInsert(roles, ctypes, lists) ==
    /\ CanWrite /\ constructed
    /\ Cardinality(messages) < MaxMessages
    /\ \E c \in ConvIds, role \in roles, ctype \in ctypes,
          content \in ContentArgs, t \in Times,
          atts \in {l \in lists : Cardinality(attachments) + Len(l) <= MaxAttachments} :
        LET id == FreshIn(MessageIds, {m.message_id : m \in messages})
            args == AddMessageArgs(c, role, ctype, content, atts)
            row == [message_id |-> id, conversation_id |-> c, role |-> role,
                    content_type |-> ctype, content |-> content, created_at |-> t]
        IN IF Check(role, RoleEnum) /\ Check(ctype, ContentTypeEnum)
           THEN /\ ChatWritten(Begin, conversations, messages \cup {row}, attachments)
                /\ local' = [op |-> "add_message", message_id |-> id, current_time |-> t,
                             args |-> args, k |-> 1]
                /\ pc' = "add_message_touch"
                /\ last' = Called("add_message", args)
                /\ UNCHANGED unclosed
           ELSE /\ last' = Raised("add_message", args, "IntegrityError: CHECK constraint failed")
                /\ Leave
                /\ UNCHANGED <<chat, txn, pc, local>>
    /\ UNCHANGED <<schema, settings, seq, constructed>>

\* add_message called with or without attachments
add_message_insert == AddMessageInsert(RoleArgs, ContentTypeArgs, AttLists)

\* add_message called without attachments, by callers that may also pass None
\* as role or content_type, or a content_type the schema does not list
add_message_insert_bare ==
    AddMessageInsert(RoleArgs \cup {NULL}, ContentTypeArgs \cup {NULL, "pdf"}, {<<>>})

\* add_message called without attachments, with a valid role and content_type
add_message_insert_text == AddMessageInsert({"user"}, ContentTypeArgs, {<<>>})

\* an add_message that leaves last_updated as it was
Touched_skipped(rows, c, t) == rows

\* UPDATE conversations SET last_updated = ? WHERE conversation_id = ?
Touched(rows, c, t) ==
    {IF r.conversation_id = c THEN [r EXCEPT !.last_updated = t] ELSE r : r \in rows}

add_message_touch ==
    /\ UNCHANGED unclosed
    /\ pc = "add_message_touch"
    /\ ChatWritten(txn, Touched(txn.conversations, local.args.conversation_id,
                                local.current_time),
                   txn.messages, txn.attachments)
    /\ pc' = "add_message_attach"
    /\ UNCHANGED <<schema, settings, seq, constructed, local, last>>

\* the row one pass of the loop over attachments inserts
AttachmentRow(id, message_id, att, t) ==
    [attachment_id |-> id, message_id |-> message_id, file_name |-> att["name"],
     file_path |-> att["path"], file_type |-> att["type"], file_size |-> att["size"],
     created_at |-> t]

\* one pass of `for att in attachments`: INSERT INTO attachments
add_message_attach ==
    /\ UNCHANGED unclosed
    /\ pc = "add_message_attach"
    /\ local.k <= Len(local.args.attachments)
    /\ LET att == local.args.attachments[local.k] IN
        /\ AttKeys \subseteq DOMAIN att
        /\ LET id == FreshIn(AttachmentIds, {a.attachment_id : a \in txn.attachments}) IN
             ChatWritten(txn, txn.conversations, txn.messages,
                         txn.attachments \cup
                            {AttachmentRow(id, local.message_id, att, local.current_time)})
    /\ local' = [local EXCEPT !.k = @ + 1]
    /\ UNCHANGED <<schema, settings, seq, constructed, pc, last>>

\* att["name"], att["path"], att["type"] or att["size"] raises KeyError
add_message_keyerror ==
    /\ Leave
    /\ pc = "add_message_attach"
    /\ local.k <= Len(local.args.attachments)
    /\ ~(AttKeys \subseteq DOMAIN local.args.attachments[local.k])
    /\ Abort
    /\ last' = Raised("add_message", local.args, "KeyError")
    /\ pc' = "idle"
    /\ local' = NoLocal
    /\ UNCHANGED <<schema, seq, constructed>>

\* the loop is over (or attachments is None or empty): commit, return message_id
add_message_return ==
    /\ Leave
    /\ pc = "add_message_attach"
    /\ local.k > Len(local.args.attachments)
    /\ Commit
    /\ last' = Returned("add_message", local.args, local.message_id)
    /\ pc' = "idle"
    /\ local' = NoLocal
    /\ UNCHANGED <<schema, seq, constructed>>

\* a delete_conversation that leaves the attachments behind
AttachmentsKept_all(atts, msgs, c) == atts

\* DELETE FROM attachments WHERE message_id IN (SELECT message_id FROM messages
\* WHERE conversation_id = ?)
AttachmentsKept(atts, msgs, c) ==
    {a \in atts : a.message_id \notin {m.message_id : m \in {x \in msgs : x.conversation_id = c}}}

\* DELETE FROM messages WHERE conversation_id = ?
MessagesKept(msgs, c) == {m \in msgs : m.conversation_id # c}

\* DELETE FROM conversations WHERE conversation_id = ?
ConversationsKept(convs, c) == {r \in convs : r.conversation_id # c}

\* first statement of delete_conversation: the attachments of its messages
delete_attachments ==
    /\ UNCHANGED unclosed
    /\ CanWrite /\ constructed
    /\ \E c \in ConvIds :
        /\ ChatWritten(Begin, conversations, messages, AttachmentsKept(attachments, messages, c))
        /\ local' = [op |-> "delete_conversation", conversation_id |-> c]
        /\ last' = Called("delete_conversation", c)
    /\ pc' = "delete_messages"
    /\ UNCHANGED <<schema, settings, seq, constructed>>

\* second statement: its messages
delete_messages ==
    /\ UNCHANGED unclosed
    /\ pc = "delete_messages"
    /\ ChatWritten(txn, txn.conversations, MessagesKept(txn.messages, local.conversation_id),
                   txn.attachments)
    /\ pc' = "delete_conversations"
    /\ UNCHANGED <<schema, settings, seq, constructed, local, last>>

\* third statement: the conversation row
delete_conversations ==
    /\ UNCHANGED unclosed
    /\ pc = "delete_conversations"
    /\ ChatWritten(txn, ConversationsKept(txn.conversations, local.conversation_id),
                   txn.messages, txn.attachments)
    /\ pc' = "delete_return"
    /\ UNCHANGED <<schema, settings, seq, constructed, local, last>>

\* the with-block ends: commit
delete_return ==
    /\ Leave
    /\ pc = "delete_return"
    /\ Commit
    /\ last' = Returned("delete_conversation", local.conversation_id, NULL)
    /\ pc' = "idle"
    /\ local' = NoLocal
    /\ UNCHANGED <<schema, seq, constructed>>

\* the rows of SELECT m.*, a.attachment_id, ... FROM messages m LEFT JOIN
\* attachments a ON m.message_id = a.message_id WHERE m.conversation_id = ?:
\* one row per attachment of a message, one row with NULLs for a message
\* that has none (attachment is {} then)
JoinRows(msgs, atts, c) ==
    LET of(m) == {a \in atts : a.message_id = m.message_id} IN
    UNION { IF of(m) = {}
            THEN {[created_at |-> m.created_at, message |-> m, attachment |-> {}]}
            ELSE {[created_at |-> m.created_at, message |-> m, attachment |-> {a}] : a \in of(m)}
          : m \in {x \in msgs : x.conversation_id = c} }

\* the query without its ORDER BY: the rows in any order
RECURSIVE ByCreatedAt_unordered(_)
ByCreatedAt_unordered(rows) ==
    IF rows = {} THEN {<<>>}
    ELSE UNION { { <<r>> \o rest : rest \in ByCreatedAt_unordered(rows \ {r}) } : r \in rows }

\* ORDER BY created_at ASC: every sequence of the rows in which created_at
\* never decreases; the order among rows of equal created_at is not defined
RECURSIVE ByCreatedAt(_)
ByCreatedAt(rows) ==
    IF rows = {} THEN {<<>>}
    ELSE UNION { { <<r>> \o rest : rest \in ByCreatedAt(rows \ {r}) }
                 : r \in {x \in rows : \A y \in rows : x.created_at <= y.created_at} }

\* message_dict[message_id] = {key: row[key] for key in [...]}; attachments = []
MessageEntry(m) ==
    [message_id |-> m.message_id, conversation_id |-> m.conversation_id, role |-> m.role,
     content_type |-> m.content_type, content |-> m.content, created_at |-> m.created_at,
     attachments |-> <<>>]

\* the dictionary appended for a row that carries an attachment
AttachmentEntry(a) ==
    [attachment_id |-> a.attachment_id, file_name |-> a.file_name, file_path |-> a.file_path,
     file_type |-> a.file_type, file_size |-> a.file_size]

\* a grouping loop keyed by position: every row opens an entry of its own
RECURSIVE Grouped_per_row(_, _)
Grouped_per_row(rows, acc) ==
    IF rows = <<>> THEN acc
    ELSE LET row == Head(rows)
             e == MessageEntry(row.message)
         IN Grouped_per_row(Tail(rows),
               Append(acc, IF row.attachment = {} THEN e
                           ELSE [e EXCEPT !.attachments =
                                    <<AttachmentEntry(CHOOSE a \in row.attachment : TRUE)>>]))

\* the loop `for row in messages` over the fetched rows, then
\* list(message_dict.values()): a dict keeps its keys in insertion order
RECURSIVE Grouped(_, _)
Grouped(rows, acc) ==
    IF rows = <<>> THEN acc
    ELSE LET row == Head(rows)
             id == row.message.message_id
             acc1 == IF \E i \in 1..Len(acc) : acc[i].message_id = id
                     THEN acc ELSE Append(acc, MessageEntry(row.message))
             i == CHOOSE j \in 1..Len(acc1) : acc1[j].message_id = id
             acc2 == IF row.attachment = {} THEN acc1
                     ELSE [acc1 EXCEPT ![i].attachments =
                              Append(@, AttachmentEntry(CHOOSE a \in row.attachment : TRUE))]
         IN Grouped(Tail(rows), acc2)

\* the lists get_conversation_history(c) can return on the committed rows
Histories(c) == {Grouped(rows, <<>>) : rows \in ByCreatedAt(JoinRows(messages, attachments, c))}

get_conversation_history ==
    /\ Leave
    /\ constructed
    /\ \E c \in ConvIds : \E hist \in Histories(c) :
          last' = Returned("get_conversation_history", c, hist)
    /\ UNCHANGED <<schema, chat, settings, seq, constructed, txn, pc, local>>

\* MAX(m.created_at) over the joined messages: NULL (None) when there is none
MaxCreatedAt(msgs) ==
    IF msgs = {} THEN None
    ELSE Some(CHOOSE t \in {m.created_at : m \in msgs} : \A m \in msgs : m.created_at <= t)

\* the query with an inner JOIN: conversations without messages drop out
ConversationRows_inner(convs, msgs) ==
    { LET own == {m \in msgs : m.conversation_id = c.conversation_id} IN
      [conversation_id |-> c.conversation_id, created_at |-> c.created_at,
       last_updated |-> c.last_updated, summary |-> c.summary,
       message_count |-> Cardinality(own), last_message_at |-> MaxCreatedAt(own)]
      : c \in {x \in convs : \E m \in msgs : m.conversation_id = x.conversation_id} }

\* SELECT c.*, COUNT(m.message_id), MAX(m.created_at) FROM conversations c
\* LEFT JOIN messages m ON ... GROUP BY c.conversation_id
ConversationRows(convs, msgs) ==
    { LET own == {m \in msgs : m.conversation_id = c.conversation_id} IN
      [conversation_id |-> c.conversation_id, created_at |-> c.created_at,
       last_updated |-> c.last_updated, summary |-> c.summary,
       message_count |-> Cardinality(own), last_message_at |-> MaxCreatedAt(own)]
      : c \in convs }

\* the lists get_all_conversations() can return: ORDER BY c.created_at ASC
ConversationLists == ByCreatedAt(ConversationRows(conversations, messages))

get_all_conversations ==
    /\ Leave
    /\ constructed
    /\ \E l \in ConversationLists : last' = Returned("get_all_conversations", "", l)
    /\ UNCHANGED <<schema, chat, settings, seq, constructed, txn, pc, local>>

-----------------------------------------------------------------------------
(* Initial states *)

NoRows ==
    /\ conversations = {} /\ messages = {} /\ attachments = {}
    /\ txn = NoTxn
    /\ pc = "idle"
    /\ local = NoLocal

\* the store after ChatDatabase(db_path) on a location holding no file
Init ==
    /\ db_exists = TRUE
    /\ tables = TableNames
    /\ summary_col = TRUE
    /\ \E t \in Times : settings = {DefaultProfile(t)}
    /\ seq = 1
    /\ constructed = TRUE
    /\ last = Returned("init_db", "create", "ok")
    /\ unclosed = 1
    /\ NoRows

\* a storage location before any ChatDatabase is constructed on it: no file,
\* or a file holding any of the four tables, each still without rows
InitLocation ==
    /\ db_exists \in BOOLEAN
    /\ tables \in SUBSET TableNames
    /\ ~db_exists => tables = {}
    /\ summary_col \in BOOLEAN
    /\ "conversations" \notin tables => ~summary_col
    /\ settings = {}
    /\ seq = 0
    /\ constructed = FALSE
    /\ last = Called("none", "")
    /\ unclosed = 0
    /\ NoRows

NextSettings ==
        \/ init_db
        \/ add_settings
        \/ save_settings
        \/ set_default_clear
        \/ set_default_set
        \/ set_default_return
        \/ get_settings
        \/ get_all_settings
        \/ get_settings_by_id
        \/ locked

\* the settings store on any storage location
SpecSettings == InitLocation /\ [][NextSettings]_vars

NextAppend ==
        \/ create_conversation
        \/ add_message_insert
        \/ add_message_touch
        \/ add_message_attach
        \/ add_message_keyerror
        \/ add_message_return
        \/ get_conversation_history

\* appending to and reading conversations, on a freshly initialized store
SpecAppend == Init /\ [][NextAppend]_vars

NextDelete ==
        \/ create_conversation
        \/ add_message_insert
        \/ add_message_touch
        \/ add_message_attach
        \/ add_message_keyerror
        \/ add_message_return
        \/ delete_attachments
        \/ delete_messages
        \/ delete_conversations
        \/ delete_return

\* appending to and deleting conversations, on a freshly initialized store
SpecDelete == Init /\ [][NextDelete]_vars

NextList ==
        \/ create_conversation
        \/ add_message_insert_text
        \/ add_message_touch
        \/ add_message_return
        \/ delete_attachments
        \/ delete_messages
        \/ delete_conversations
        \/ delete_return
        \/ get_all_conversations

\* creating, appending to, deleting and listing conversations
SpecList == Init /\ [][NextList]_vars

NextCheck ==
        \/ create_conversation
        \/ add_message_insert_bare
        \/ add_message_touch
        \/ add_message_return
        \/ get_conversation_history

\* appending messages whose role or content_type may be None or unlisted
SpecCheck == Init /\ [][NextCheck]_vars

NextHandles ==
        \/ create_conversation
        \/ add_message_insert_bare
        \/ add_message_touch
        \/ add_message_return
        \/ set_default_clear
        \/ set_default_set
        \/ set_default_return
        \/ collect

\* calls that return or raise, and the garbage collector
SpecHandles == Init /\ [][NextHandles]_vars

Next ==
        \/ NextSettings
        \/ NextAppend
        \/ delete_attachments
        \/ delete_messages
        \/ delete_conversations
        \/ delete_return
        \/ get_all_conversations
        \/ add_message_insert_bare
        \/ add_message_insert_text
        \/ collect

\* every operation, on any storage location
Spec == InitLocation /\ [][Next]_vars

-----------------------------------------------------------------------------
(* Properties of the settings store *)

Defaults(rows) == {r \in rows : r.default}
Ids(rows) == {r.id : r \in rows}

\* C1: in every reachable state of the store, whatever add, save, setDefault
\* (with existing or nonexistent ids) and re-initialization calls led to it,
\* the number of settings profiles whose default flag is set is 0 or 1.
C1_AtMostOneDefault == Cardinality(Defaults(settings)) <= 1

\* C1's case: setDefault moved the flag away from the profile the schema
\* script created, and the handle was constructed again afterwards
C1_Witness ==
    /\ last.op = "init_db" /\ last.kind = "return" /\ last.arg = "keep"
    /\ Cardinality(settings) >= 2
    /\ \E r \in settings : r.default /\ r.id # 1

\* C2: setDefault(id) on an existing id returns true and leaves exactly one
\* profile flagged default, the one with that id, whichever profile (or none)
\* held the flag before; getDefault() then returns that profile.
C2_SetDefaultSelects ==
    (last.op = "set_default_settings" /\ last.kind = "return" /\ last.arg \in Ids(settings))
        => /\ last.result = TRUE
           /\ Ids(Defaults(settings)) = {last.arg}
           /\ \A r \in FetchDefault(VisibleSettings) : r \in settings /\ r.id = last.arg

\* C2's case: setDefault(Y) returned after another profile X had been the
\* default, X still being stored
C2_Witness ==
    /\ last.op = "set_default_settings" /\ last.kind = "return" /\ last.result = TRUE
    /\ \E r \in settings : r.id # last.arg /\ r.name = "default" /\ ~r.default

InSetDefault == {"set_default_set", "set_default_return"}

\* C6: while setDefault(id) for an existing id runs on a store that has a
\* default profile, what another connection reads never shows zero or two
\* default profiles: every step of the call leaves the readable rows as they
\* were before the call, or turns them into the rows in which id alone is
\* the default.
C6_SetDefaultAtomic ==
    [][ (pc \in InSetDefault \/ pc' \in InSetDefault) =>
             LET id == IF pc \in InSetDefault
                       THEN local.settings_id ELSE local'.settings_id
             IN (id \in Ids(VisibleSettings) /\ Cardinality(Defaults(VisibleSettings)) = 1)
                  => /\ Cardinality(Defaults(VisibleSettings')) = 1
                     /\ \/ VisibleSettings' = VisibleSettings
                        \/ Ids(Defaults(VisibleSettings')) = {id} ]_vars

\* C6's case: a reader called getDefault after the call had cleared and set
\* the flag in its transaction, and was given the profile that was default
\* before the call
C6_Witness ==
        /\ pc = "set_default_return"
        /\ Ids(Defaults(txn.settings)) = {local.settings_id}
        /\ last.op = "get_settings" /\ last.kind = "return"
        /\ DOMAIN last.result # {}
        /\ last.result.id # local.settings_id

\* C10: initialize on an existing store holding fewer than the four expected
\* tables re-runs the schema creation and completes with all four tables
\* present and one default settings profile.
C10_PartialStoreRecreated ==
    (last.op = "init_db" /\ last.arg = "recreate")
        => /\ last.kind = "return"
           /\ tables = TableNames
           /\ Cardinality(Defaults(settings)) = 1

\* C11: constructing a handle on a store that has all four tables and the
\* summary column completes and leaves every row of every table as it was: no
\* second profile named "default" appears and the flagged profile stays the
\* same.
C11_InitIdempotent ==
    [][ (last'.op = "init_db" /\ db_exists /\ tables = TableNames /\ summary_col)
          => /\ last'.kind = "return"
             /\ settings' = settings /\ seq' = seq /\ chat' = chat
             /\ schema' = schema ]_vars

\* C11's case: the handle was constructed again on a store in which a
\* profile added later holds the default flag
C11_Witness ==
    /\ last.op = "init_db" /\ last.kind = "return" /\ last.arg = "keep"
    /\ Cardinality({r \in settings : r.name = "default"}) = 1
    /\ \E r \in settings : r.default /\ r.name = "fast"

\* C12: after construction on a location where no store exists, settings
\* holds exactly one profile: named "default", flagged default, temperature
\* 1.0, max_tokens 4096, top_p 0.95, host http://localhost:8000/v1;
\* getDefault() returns it; there is no conversation, message or attachment.
C12_FreshStore ==
    (last.op = "init_db" /\ last.arg = "create")
        => /\ last.kind = "return"
           /\ tables = TableNames
           /\ Cardinality(settings) = 1
           /\ \A r \in settings :
                 /\ r.name = "default" /\ r.default
                 /\ r.temperature = "1.0" /\ r.max_tokens = 4096 /\ r.top_p = "0.95"
                 /\ r.host = "http://localhost:8000/v1"
                 /\ FetchDefault(VisibleSettings) = {r}
           /\ conversations = {} /\ messages = {} /\ attachments = {}

\* C12's case: the construction ran the schema script on a location holding
\* no file
C12_Witness ==
    /\ last.op = "init_db" /\ last.arg = "create" /\ last.kind = "return"
    /\ constructed /\ db_exists /\ seq = 1

\* C13: setDefault(id) with an id no profile carries returns false, and
\* clears the flag all the same: no profile is flagged default afterwards and
\* getDefault() returns the empty dictionary.
C13_SetDefaultMissingId ==
    (last.op = "set_default_settings" /\ last.kind = "return" /\ last.arg \notin Ids(settings))
        => /\ last.result = FALSE
           /\ Defaults(settings) = {}
           /\ FetchDefault(VisibleSettings) = {EmptyDict}

\* C13's case: the call returned false on a store whose profile "default"
\* is stored and no longer flagged
C13_Witness ==
    /\ last.op = "set_default_settings" /\ last.kind = "return" /\ last.result = FALSE
    /\ \E r \in settings : r.name = "default" /\ ~r.default

SettingsFields == {"name", "temperature", "max_tokens", "top_p", "host", "model_name", "api_key"}

\* the value documented for a field the caller leaves out
FieldDefault(f) ==
    CASE f = "name" -> "New Config"
      [] f = "temperature" -> DefaultTemperature
      [] f = "max_tokens" -> DefaultMaxTokens
      [] f = "top_p" -> DefaultTopP
      [] f = "host" -> DefaultHost
      [] f = "model_name" -> DefaultModelName
      [] f = "api_key" -> DefaultApiKey

\* C15: for every profile d given to add, getById of the returned id yields a
\* profile whose name, temperature, max_tokens, top_p, host, model_name and
\* api_key are the values of d, or the defaults for the fields d leaves out,
\* and the returned id is the id of no profile stored before.
C15_AddRoundTrip ==
    [][ (last'.op = "add_settings" /\ last'.kind = "return") =>
          LET d == last'.arg
              id == last'.result
              got == FetchById(VisibleSettings', id)
          IN /\ id \notin Ids(settings)
             /\ got # None
             /\ \A f \in SettingsFields : got[1][f] = Get(d, f, FieldDefault(f)) ]_vars

\* C15's case: add returned for a profile that gives every field, on a store
\* that already held a profile
C15_Witness ==
    /\ last.op = "add_settings" /\ last.kind = "return"
    /\ "max_tokens" \in DOMAIN last.arg
    /\ last.result = 2
    /\ \E r \in settings : r.id = 2 /\ r.name = "fast"

\* C17: every public operation releases its transaction and its connection
\* on every exit path: a step after which no call is running leaves no
\* transaction open and no more connections open than there were before it,
\* so the number of open connections does not grow with the calls made.
C17_HandlesReleased ==
    [][ pc' = "idle" => (txn' = NoTxn /\ unclosed' <= unclosed) ]_vars

\* C18: only setDefault changes a default flag: a step that changes the flag
\* of a stored profile is the commit of setDefault, and add and save (insert
\* or update by id, whatever the dictionary carries) leave every stored flag
\* as it was and create non-default profiles only.
C18_OnlySetDefaultFlags ==
    [][ /\ (\E r \in settings : \E r2 \in settings' : r2.id = r.id /\ r2.default # r.default)
            => pc = "set_default_return"
        /\ last'.op \in {"add_settings", "save_settings"}
            => /\ \A r \in settings : \E r2 \in settings' : r2.id = r.id /\ r2.default = r.default
               /\ \A r2 \in settings' : r2.id \notin Ids(settings) => ~r2.default ]_vars

\* C18's case: save updated, by its id, the flagged profile with a dictionary
\* that carries a "default" entry
C18_Witness ==
    /\ last.op = "save_settings" /\ last.kind = "return" /\ last.result = TRUE
    /\ {"default", "id"} \subseteq DOMAIN last.arg
    /\ last.arg["id"] # None
    /\ \E r \in settings : r.id = last.arg["id"][1] /\ r.default /\ r.name = "fast"

-----------------------------------------------------------------------------
(* Properties of conversations, messages and attachments *)

InAddMessage == {"add_message_touch", "add_message_attach"}

MessagesOf(msgs, c) == {m \in msgs : m.conversation_id = c}
AttachmentsOf(atts, id) == {a \in atts : a.message_id = id}

\* C3: when deleteConversation(C) commits, no conversation row with id C, no
\* message row with conversation_id C and no attachment row of a message
\* that belonged to C remains, and no list listConversations() can return
\* includes C.
C3_DeleteCascades ==
    [][ (pc = "delete_return" /\ pc' = "idle") =>
          LET c == local.conversation_id
              owned == {m.message_id : m \in MessagesOf(messages, c)}
          IN /\ \A r \in conversations' : r.conversation_id # c
             /\ MessagesOf(messages', c) = {}
             /\ \A a \in attachments' : a.message_id \notin owned
             /\ \A l \in ConversationLists' :
                   \A i \in 1..Len(l) : l[i].conversation_id # c ]_vars

\* C3's case: the three DELETE statements have run on a conversation that is
\* stored with a message and an attachment of that message
C3_Witness ==
    /\ pc = "delete_return"
    /\ \E r \in conversations : r.conversation_id = local.conversation_id
    /\ \E m \in MessagesOf(messages, local.conversation_id) :
          AttachmentsOf(attachments, m.message_id) # {}
    /\ MessagesOf(txn.messages, local.conversation_id) = {}

AddMessageRaised == last.op = "add_message" /\ last.kind = "raise"

\* C4: an appendMessage that fails, on the message insert or on the k-th
\* attachment descriptor after earlier attachments were inserted, persists
\* nothing: the step that raises leaves every committed row as it was, no
\* transaction stays open, and while the call runs no committed row carries
\* its message identifier.
C4_AllOrNothing ==
    /\ [][ (last'.op = "add_message" /\ last'.kind = "raise")
              => (chat' = chat /\ txn' = NoTxn) ]_vars
    /\ [](pc \in InAddMessage =>
              /\ \A m \in messages : m.message_id # local.message_id
              /\ AttachmentsOf(attachments, local.message_id) = {})

\* C4's case: the call raised on its second attachment descriptor, after the
\* message, the touch of an existing conversation and the first attachment
C4_Witness ==
    /\ AddMessageRaised /\ last.error = "KeyError"
    /\ Len(last.arg.attachments) = 2
    /\ \E r \in conversations : r.conversation_id = last.arg.conversation_id

AddMessageReturned == last.op = "add_message" /\ last.kind = "return"

\* C5: after a successful appendMessage on an existing conversation C,
\* C.last_updated equals the created_at of the new message, and every
\* attachment the call inserted carries that timestamp.
C5_LastUpdatedIsCreatedAt ==
    AddMessageReturned =>
        \E m \in messages :
            /\ m.message_id = last.result
            /\ \A r \in conversations :
                  r.conversation_id = last.arg.conversation_id => r.last_updated = m.created_at
            /\ Cardinality(AttachmentsOf(attachments, m.message_id)) = Len(last.arg.attachments)
            /\ \A a \in AttachmentsOf(attachments, m.message_id) : a.created_at = m.created_at

\* C5's case: the call returned on a stored conversation whose last_updated
\* it moved away from created_at, with attachments
C5_Witness ==
    /\ AddMessageReturned
    /\ Len(last.arg.attachments) = 2
    /\ \E r \in conversations :
          r.conversation_id = last.arg.conversation_id /\ r.last_updated # r.created_at

\* the appendMessage call with the local variables l is applied in full to
\* the rows convs, msgs and atts
Applied(l, convs, msgs, atts) ==
    /\ \E m \in msgs : m.message_id = l.message_id /\ m.created_at = l.current_time
    /\ Cardinality(AttachmentsOf(atts, l.message_id)) = Len(l.args.attachments)
    /\ \A r \in convs :
          r.conversation_id = l.args.conversation_id => r.last_updated = l.current_time

\* C7: no other connection observes a partially applied appendMessage: every
\* step of the call leaves the committed rows, which are what getHistory and
\* listConversations read, as they were, except the step that commits, and
\* that one makes the message, all its attachments and the conversation's
\* last_updated visible together.
C7_AppendAtomic ==
    [][ (pc \in InAddMessage \/ pc' \in InAddMessage) =>
          \/ chat' = chat
          \/ /\ pc' = "idle" /\ last'.kind = "return"
             /\ Applied(local, conversations', messages', attachments') ]_vars

\* C7's case: getHistory ran on the conversation after the call had inserted
\* its message and first attachment, and did not return the message
C7_Witness ==
    /\ pc = "add_message_attach" /\ local.k = 2
    /\ last.op = "get_conversation_history" /\ last.kind = "return"
    /\ last.arg = local.args.conversation_id
    /\ \A i \in 1..Len(last.result) : last.result[i].message_id # local.message_id
    /\ \E m \in txn.messages : m.message_id = local.message_id

HistoryReturned == last.op = "get_conversation_history" /\ last.kind = "return"

\* C8: getHistory(C) returns each message of C exactly once and no message
\* of another conversation, each with exactly the attachments stored for it
\* (an empty list when it has none).
C8_HistoryExact ==
    HistoryReturned =>
        LET h == last.result
            own == MessagesOf(messages, last.arg) IN
        /\ Len(h) = Cardinality(own)
        /\ {h[i].message_id : i \in 1..Len(h)} = {m.message_id : m \in own}
        /\ \A i \in 1..Len(h) :
              LET atts == AttachmentsOf(attachments, h[i].message_id)
                  l == h[i].attachments IN
              /\ MessageEntry(CHOOSE m \in own : m.message_id = h[i].message_id)
                    = [h[i] EXCEPT !.attachments = <<>>]
              /\ Len(l) = Cardinality(atts)
              /\ {l[j] : j \in 1..Len(l)} = {AttachmentEntry(a) : a \in atts}

\* C8's case: a history of two messages, one with two attachments and one
\* with none, while the other conversation has no message in it
C8_Witness ==
    /\ HistoryReturned
    /\ Len(last.result) = 2
    /\ \E i, j \in 1..2 :
          Len(last.result[i].attachments) = 2 /\ Len(last.result[j].attachments) = 0

\* C9: getHistory(C) returns the messages of C in non-decreasing created_at
\* order, also when several messages carry attachments and when messages
\* have equal created_at.
C9_HistoryOrdered ==
    HistoryReturned =>
        \A i, j \in 1..Len(last.result) :
            i < j => last.result[i].created_at <= last.result[j].created_at

\* C9's case: a history of two messages of equal created_at that both carry
\* an attachment
C9_Witness ==
    /\ HistoryReturned
    /\ Len(last.result) = 2
    /\ last.result[1].created_at = last.result[2].created_at
    /\ Len(last.result[1].attachments) = 1 /\ Len(last.result[2].attachments) = 1

\* C14: every stored message has a role among user, assistant, system and a
\* content_type among text, image, audio, video, file: an appendMessage with
\* a role or content_type outside the enumeration, None included, raises and
\* leaves the store unchanged.
C14_EnumsEnforced ==
    /\ \A m \in messages : m.role \in RoleEnum /\ m.content_type \in ContentTypeEnum
    /\ (AddMessageReturned /\ pc = "idle")
          => (last.arg.role \in RoleEnum /\ last.arg.content_type \in ContentTypeEnum)

ListReturned == last.op = "get_all_conversations" /\ last.kind = "return"

\* C16: listConversations() returns every stored conversation exactly once,
\* with message_count the number of messages stored for it and
\* last_message_at the greatest created_at among them (None when it has
\* none), in non-decreasing order of the conversations' created_at.
C16_ListExact ==
    ListReturned =>
        LET l == last.result IN
        /\ Len(l) = Cardinality(conversations)
        /\ {l[i].conversation_id : i \in 1..Len(l)} = {r.conversation_id : r \in conversations}
        /\ \A i \in 1..Len(l) :
              LET own == MessagesOf(messages, l[i].conversation_id) IN
              /\ \E r \in conversations :
                    /\ r.conversation_id = l[i].conversation_id
                    /\ r.created_at = l[i].created_at /\ r.last_updated = l[i].last_updated
              /\ l[i].message_count = Cardinality(own)
              /\ IF own = {} THEN l[i].last_message_at = None
                 ELSE /\ \E m \in own : l[i].last_message_at = Some(m.created_at)
                      /\ \A m \in own : m.created_at <= l[i].last_message_at[1]
        /\ \A i, j \in 1..Len(l) : i < j => l[i].created_at <= l[j].created_at

\* C16's case: a list of two conversations, the later one without messages,
\* the earlier one with two messages of different created_at
C16_Witness ==
    /\ ListReturned
    /\ Len(last.result) = 2
    /\ last.result[1].created_at < last.result[2].created_at
    /\ last.result[1].message_count = 2 /\ last.result[1].last_message_at = Some(1)
    /\ \E m \in messages : m.created_at = 0
    /\ last.result[2].message_count = 0

\* C19: ownership is never dangling: in every reachable state, appends to
\* conversation ids that were never created or were deleted included, every
\* stored message's conversation_id is the id of a stored conversation and
\* every stored attachment's message_id is the id of a stored message.
C19_NoDanglingOwner ==
    /\ \A m \in messages : \E r \in conversations : r.conversation_id = m.conversation_id
    /\ \A a \in attachments : \E m \in messages : m.message_id = a.message_id

\* C20: deleteConversation(id) returns without error and changes nothing id
\* does not own: every other conversation row, every message of another
\* conversation, every attachment of such a message and every settings
\* profile stays; when no conversation row carries id, no row of the store
\* changes.
C20_DeleteFrame ==
    [][ (pc = "delete_return" /\ pc' = "idle") =>
          LET c == local.conversation_id
              others == {m \in messages : m.conversation_id # c}
          IN /\ last'.kind = "return"
             /\ \A r \in conversations : r.conversation_id # c => r \in conversations'
             /\ others \subseteq messages'
             /\ \A a \in attachments :
                   (\E m \in others : m.message_id = a.message_id) => a \in attachments'
             /\ settings' = settings
             /\ (\A r \in conversations : r.conversation_id # c)
                   => (chat' = chat /\ settings' = settings) ]_vars

=============================================================================
